---- MODULE Spec2Model ----
(***************************************************************************)
(* Model of AAS_CLONE/processors.py: DocumentProcessor.chunk_text,          *)
(* process_with_rate_limit, process_chunks_parallel and update_progress,   *)
(* the processors proofread_chunk and translate_chunk, and OCRProcessor.   *)
(*                                                                         *)
(* Time is counted in tenths of a second.  Python values are records       *)
(* [t, s]: t is "None" or "str", s the string as a sequence of characters. *)
(***************************************************************************)
EXTENDS Integers, Sequences, FiniteSets, TLC

\* ------------------------------------------------------------------ bounds
MaxChunks == 2
MaxWorkers == 2
MaxIdle == 1
StartTime == 2
MaxLen == 6
MaxSize == 3
MaxPages == 3
MaxCount == 50

\* ------------------------------------------------------- program constants
min_request_interval == 2
RetryBackoff == 50
OcrWorkers == 5
MinResponseLen == 50

VARIABLES
    chunks,             \* the argument of process_chunks_parallel
    results,            \* results = [None] * len(chunks)
    pc,                 \* pc[0]: the calling thread; pc[i]: the pool task of chunks[i]
    rate_limit_lock,    \* holder of self.rate_limit_lock, or Free
    last_request_time,  \* self.last_request_time
    wake,               \* wake[p]: the time before which p's time.sleep does not return
    outcome,            \* outcome[i]: what the future of chunks[i] holds, until handled
    collected,          \* the futures as_completed has yielded
    completed,          \* the local counter of the collecting loop
    index,              \* the index of the future being handled, 0 between iterations
    job_id,             \* self.job_id
    progress_tracker,   \* config.progress_tracker
    clock,              \* time.time()
    idle,               \* ticks spent so far that no sleep asked for
    first,              \* history: the kind of outcome of the first call for chunks[i]
    second,             \* history: the kind of outcome of the retry call for chunks[i]
    calls,              \* history: calls[i] counts the calls of process_func(chunks[i])
    acqs,               \* history: acqs[i] counts the limiter passages made for chunks[i]
    acqLog,             \* history: the values written to last_request_time, in order
    lastStart,          \* history: when process_func was last entered
    sleptAt,            \* history: when the back-off in progress began
    text,               \* the argument of chunk_text
    max_chunk_size,     \* the argument of chunk_text
    cpc,                \* position of the chunk_text caller
    chunk_out,          \* what chunk_text returned
    max_workers,        \* self.max_workers
    process_func,       \* the function passed to process_chunks_parallel
    api,                \* history: the kind of outcome of the model call made for chunks[i]
    images,             \* the number of pages of the document
    opc,                \* position of the caller of pdf_to_images and perform_ocr
    page_num,           \* the loop variable of pdf_to_images
    ppc,                \* ppc[i]: the pool task ocr_page of page i
    page_result,        \* page_result[i]: what the future of page i holds
    extracted,          \* history: what extract_text_from_image did for page i
    extracted_texts,    \* extracted_texts = [""] * total
    ocr_out,            \* what perform_ocr returned
    upc,                \* position of the caller of update_progress
    arg_current,        \* the argument current of update_progress
    arg_total,          \* the argument total of update_progress
    before              \* history: progress_tracker when update_progress was called

parVars == <<chunks, results, pc, rate_limit_lock, last_request_time, wake, outcome,
             collected, completed, index, job_id, progress_tracker, clock, idle,
             first, second, calls, acqs, acqLog, lastStart, sleptAt>>

chunkVars == <<text, max_chunk_size, cpc, chunk_out>>

cfgVars == <<max_workers, process_func, api>>

ocrVars == <<images, opc, page_num, ppc, page_result, extracted, extracted_texts, ocr_out>>

progVars == <<upc, arg_current, arg_total, before>>

vars == <<parVars, chunkVars, cfgVars, ocrVars, progVars>>

\* ------------------------------------------------------------ Python values
PyNone == [t |-> "None", s |-> <<>>]
Str(s) == [t |-> "str", s |-> s]

\* bool(v) for None and str
Truthy(v) == v.t = "str" /\ v.s # <<>>

\* str.lower() on the letters the messages use
LowerChar(c) ==
    CASE c = "Q" -> "q" [] c = "U" -> "u" [] c = "O" -> "o" [] c = "T" -> "t"
      [] c = "A" -> "a" [] c = "R" -> "r" [] c = "E" -> "e" [] OTHER -> c

Lower(s) == [k \in DOMAIN s |-> LowerChar(s[k])]

\* sub in s
Contains(s, sub) ==
    \E k \in 0..(Len(s) - Len(sub)) :
        \A j \in 1..Len(sub) : s[k + j] = sub[j]

\* mutant: the message is matched without lower()
IsRateLimitErrorCaseSensitive(msg) ==
    \/ Contains(msg, <<"4", "2", "9">>)
    \/ Contains(msg, <<"q", "u", "o", "t", "a">>)
    \/ Contains(msg, <<"r", "a", "t", "e">>)

\* mutant: every exception is taken for a rate-limit error
IsRateLimitErrorAlways(msg) == TRUE

\* the test of line 118 on str(e)
IsRateLimitError(msg) ==
    \/ Contains(msg, <<"4", "2", "9">>)
    \/ Contains(Lower(msg), <<"q", "u", "o", "t", "a">>)
    \/ Contains(Lower(msg), <<"r", "a", "t", "e">>)

\* ---------------------------------------------------- the processor's world
\* the units are told apart by their position
Digits == <<"1", "2", "3", "4", "5">>
Unit(i) == Str(<<"u", Digits[i]>>)

Processed(unit) == Str(<<"x">> \o unit.s)
RetVals(unit) == {Processed(unit), Str(<<>>), PyNone}

ErrMsgs == { <<"4", "2", "9">>,
             <<"Q", "U", "O", "T", "A">>,
             <<"R", "a", "t", "e">>,
             <<"b", "o", "o", "m">> }

\* a future that is not set, or whose outcome has been handled
NoOutcome == [kind |-> "none", v |-> PyNone]

\* what one call of process_func(unit) can do: return a value made from the
\* unit, return an empty value, or raise
Outcomes(unit) ==
    {[kind |-> "ret", v |-> r] : r \in RetVals(unit)}
       \cup {[kind |-> "exc", v |-> Str(m)] : m \in ErrMsgs}

NoSnapshot == [current |-> -1, total |-> -1, status |-> <<"", 0, 0>>, percentage |-> -1]

Free == -1
N == Len(chunks)
Tasks == 1..N
Callers == 0..N

\* ---------------------------------------------------------- update_progress
\* Python floats are IEEE 754 doubles.  A double that is at least 0 is [m, e]
\* with the value m * 2^e: m is 0 or has exactly Precision bits.  m is kept as
\* a natural number in base Base, lowest digit first, without leading zeros.
\* Bind(v, Op) is Op(v) with v evaluated once.
Precision == 53
Base == 8192
BaseBits == 13

Bind(v, Op(_)) == CHOOSE r \in {Op(x) : x \in {v}} : TRUE

RECURSIVE Pow2(_)
Pow2(k) == IF k = 0 THEN 1 ELSE 2 * Pow2(k - 1)

RECURSIVE BitLen(_)
BitLen(n) == IF n = 0 THEN 0 ELSE 1 + BitLen(n \div 2)

RECURSIVE BigFromInt(_)
BigFromInt(n) ==
    IF n = 0 THEN <<>> ELSE <<n % Base>> \o BigFromInt(n \div Base)

RECURSIVE BigToInt(_)
BigToInt(a) == IF a = <<>> THEN 0 ELSE Head(a) + Base * BigToInt(Tail(a))

BigBitLen(a) ==
    IF a = <<>> THEN 0 ELSE BaseBits * (Len(a) - 1) + BitLen(a[Len(a)])

\* a * k + carry for 0 <= k <= Base
RECURSIVE BigMulSmall(_, _, _)
BigMulSmall(a, k, carry) ==
    IF a = <<>> THEN BigFromInt(carry)
    ELSE <<(Head(a) * k + carry) % Base>>
             \o BigMulSmall(Tail(a), k, (Head(a) * k + carry) \div Base)

\* a * 2^n
RECURSIVE BigShiftLeft(_, _)
BigShiftLeft(a, n) ==
    IF a = <<>> \/ n = 0 THEN a
    ELSE IF n >= BaseBits THEN <<0>> \o BigShiftLeft(a, n - BaseBits)
         ELSE BigMulSmall(a, Pow2(n), 0)

\* quotient and remainder of a by a small d, highest digit first
RECURSIVE BigDivSmall(_, _)
BigDivSmall(a, d) ==
    IF a = <<>> THEN [q |-> <<>>, r |-> 0]
    ELSE Bind(BigDivSmall(Tail(a), d), LAMBDA high :
           Bind(high.r * Base + Head(a), LAMBDA v :
             [q |-> IF high.q = <<>> /\ v \div d = 0 THEN <<>>
                    ELSE <<v \div d>> \o high.q,
              r |-> v % d]))

\* quotient and remainder of a by 2^n
RECURSIVE BigShiftRight(_, _)
BigShiftRight(a, n) ==
    IF a = <<>> THEN [q |-> <<>>, r |-> <<>>]
    ELSE IF n >= BaseBits
         THEN Bind(BigShiftRight(Tail(a), n - BaseBits), LAMBDA rest :
                [q |-> rest.q, r |-> <<Head(a)>> \o rest.r])
         ELSE Bind(BigDivSmall(a, Pow2(n)), LAMBDA low :
                [q |-> low.q, r |-> BigFromInt(low.r)])

\* a + 1
RECURSIVE BigIncrement(_)
BigIncrement(a) ==
    IF a = <<>> THEN <<1>>
    ELSE IF Head(a) + 1 < Base THEN <<Head(a) + 1>> \o Tail(a)
         ELSE <<0>> \o BigIncrement(Tail(a))

IsOdd(a) == a # <<>> /\ Head(a) % 2 = 1

\* -1, 0, 1 as a is less than, equal to, greater than b
RECURSIVE BigCompare(_, _)
BigCompare(a, b) ==
    IF Len(a) # Len(b) THEN (IF Len(a) < Len(b) THEN -1 ELSE 1)
    ELSE IF a = <<>> THEN 0
    ELSE IF a[Len(a)] # b[Len(b)] THEN (IF a[Len(a)] < b[Len(b)] THEN -1 ELSE 1)
    ELSE BigCompare(SubSeq(a, 1, Len(a) - 1), SubSeq(b, 1, Len(b) - 1))

\* the double nearest to a * 2^e with the part below 2^e rounded by up: round
\* to nearest, ties to even, was decided by the caller
FloatRound(m, e, up) ==
    Bind(IF up THEN BigIncrement(m) ELSE m, LAMBDA n :
      IF BigBitLen(n) > Precision
      THEN [m |-> BigShiftRight(n, 1).q, e |-> e + 1]
      ELSE [m |-> n, e |-> e])

\* the double nearest to the natural number a times 2^e
FloatOfBig(a, e) ==
    Bind(BigBitLen(a) - Precision, LAMBDA extra :
      IF extra <= 0 THEN [m |-> BigShiftLeft(a, -extra), e |-> e + extra]
      ELSE Bind(BigShiftRight(a, extra), LAMBDA cut :
             Bind(BigCompare(cut.r, BigShiftLeft(<<1>>, extra - 1)), LAMBDA cmp :
               FloatRound(cut.q, e + extra, cmp = 1 \/ (cmp = 0 /\ IsOdd(cut.q))))))

FloatZero == [m |-> <<>>, e |-> 0]

\* current / total: the quotient of two ints as a double
FloatDiv(c, d) ==
    IF c = 0 THEN FloatZero
    ELSE Bind(Precision + BitLen(d) - BitLen(c), LAMBDA shift :
           Bind(BigDivSmall(BigShiftLeft(BigFromInt(c), shift), d), LAMBDA div :
             IF BigBitLen(div.q) = Precision
             THEN FloatRound(div.q, -shift,
                             2 * div.r > d \/ (2 * div.r = d /\ IsOdd(div.q)))
             ELSE Bind(BigShiftRight(div.q, 1), LAMBDA cut :
                    FloatRound(cut.q, 1 - shift,
                               cut.r # <<>> /\ (div.r > 0 \/ IsOdd(cut.q))))))

\* f * k: the product of a double and a small int as a double
FloatMul(f, k) ==
    IF f.m = <<>> THEN FloatZero
    ELSE Bind(BigMulSmall(f.m, k, 0), LAMBDA product : FloatOfBig(product, f.e))

\* int(f): the integer part of a double that is at least 0
FloatToInt(f) ==
    IF f.e >= 0 THEN BigToInt(BigShiftLeft(f.m, f.e))
    ELSE BigToInt(BigShiftRight(f.m, -f.e).q)

\* mutant: the quotient is taken the other way round
PercentageOfCurrent(current, total) ==
    IF total > 0 /\ current > 0
    THEN FloatToInt(FloatMul(FloatDiv(total, current), 100))
    ELSE 0

\* mutant: the percentage is rounded to the nearest integer
PercentageRounded(current, total) ==
    IF total > 0 THEN (200 * current + total) \div (2 * total) ELSE 0

\* int((current / total) * 100) if total > 0 else 0
Percentage(current, total) ==
    IF total > 0
    THEN Bind(FloatDiv(current, total), LAMBDA quotient :
           Bind(FloatMul(quotient, 100), LAMBDA product : FloatToInt(product)))
    ELSE 0

\* mutant: only the first snapshot of a job is stored
update_progressOnce(tracker, current, total, status) ==
    IF job_id # "None" /\ job_id # "" /\ tracker[job_id] = NoSnapshot
    THEN [tracker EXCEPT ![job_id] = [current |-> current, total |-> total,
                                      status |-> status,
                                      percentage |-> Percentage(current, total)]]
    ELSE tracker

\* DocumentProcessor.update_progress
update_progress(tracker, current, total, status) ==
    IF job_id # "None" /\ job_id # ""
    THEN [tracker EXCEPT ![job_id] = [current |-> current, total |-> total,
                                      status |-> status,
                                      percentage |-> Percentage(current, total)]]
    ELSE tracker

\* mutant: the limiter never sleeps
SleepForNever(time_since_last) == 0

\* mutant: the limiter sleeps for the time already elapsed, not the remainder
SleepForElapsed(time_since_last) ==
    IF time_since_last < min_request_interval
    THEN time_since_last
    ELSE 0

\* --------------------------------------------------- process_with_rate_limit
\* the argument of time.sleep at line 91, 0 when the branch is not taken
SleepFor(time_since_last) ==
    IF time_since_last < min_request_interval
    THEN min_request_interval - time_since_last
    ELSE 0

\* the chunk a caller passes to process_func: a pool task its own, the
\* calling thread chunks[index]
ArgIndex(p) == IF p = 0 THEN index ELSE p

\* lines 87-91: take the lock, read the time, start the sleep if one is due
RLEnter(p) ==
    /\ pc[p] = "rl_wait"
    /\ rate_limit_lock = Free
    /\ rate_limit_lock' = p
    /\ wake' = [wake EXCEPT ![p] = clock + SleepFor(clock - last_request_time)]
    /\ pc' = [pc EXCEPT ![p] = "rl_hold"]
    /\ UNCHANGED <<chunks, results, last_request_time, outcome, collected,
                   completed, index, job_id, progress_tracker, clock, idle, first,
                   second, calls, acqs, acqLog, lastStart, sleptAt>>

\* mutant: the lock is kept when the with block is left
RLRecordKeepLock(p) ==
    /\ pc[p] = "rl_hold"
    /\ rate_limit_lock = p
    /\ clock >= wake[p]
    /\ last_request_time' = clock
    /\ wake' = [wake EXCEPT ![p] = 0]
    /\ pc' = [pc EXCEPT ![p] = "call"]
    /\ acqs' = [acqs EXCEPT ![ArgIndex(p)] = @ + 1]
    /\ acqLog' = Append(acqLog, clock)
    /\ UNCHANGED <<chunks, results, rate_limit_lock, outcome, collected, completed,
                   index, job_id, progress_tracker, clock, idle, first, second,
                   calls, lastStart, sleptAt>>

\* lines 91-92: the sleep is over, record the time, leave the with block
RLRecord(p) ==
    /\ pc[p] = "rl_hold"
    /\ rate_limit_lock = p
    /\ clock >= wake[p]
    /\ last_request_time' = clock
    /\ rate_limit_lock' = Free
    /\ wake' = [wake EXCEPT ![p] = 0]
    /\ pc' = [pc EXCEPT ![p] = "call"]
    /\ acqs' = [acqs EXCEPT ![ArgIndex(p)] = @ + 1]
    /\ acqLog' = Append(acqLog, clock)
    /\ UNCHANGED <<chunks, results, outcome, collected, completed, index, job_id,
                   progress_tracker, clock, idle, first, second, calls, lastStart,
                   sleptAt>>

\* line 94: process_func(*args) begins
Invoke(p) ==
    /\ pc[p] = "call"
    /\ pc' = [pc EXCEPT ![p] = "running"]
    /\ calls' = [calls EXCEPT ![ArgIndex(p)] = @ + 1]
    /\ lastStart' = clock
    /\ UNCHANGED <<chunks, results, rate_limit_lock, last_request_time, wake,
                   outcome, collected, completed, index, job_id, progress_tracker,
                   clock, idle, first, second, acqs, acqLog, sleptAt>>

\* the kind of an outcome, as the retry policy is stated: a message carries a
\* rate-limit signature when it contains "429", "quota" or "rate" in any case
HasSignature(msg) ==
    \/ Contains(Lower(msg), <<"4", "2", "9">>)
    \/ Contains(Lower(msg), <<"q", "u", "o", "t", "a">>)
    \/ Contains(Lower(msg), <<"r", "a", "t", "e">>)

Kind(o) ==
    CASE o.kind = "ret" /\ Truthy(o.v) -> "value"
      [] o.kind = "ret" /\ ~Truthy(o.v) -> "empty"
      [] o.kind = "exc" /\ HasSignature(o.v.s) -> "ratelimit"
      [] OTHER -> "error"

\* line 94 in a pool task: process_func returns or raises, the future is set
TaskReturn(i, o) ==
    /\ i \in Tasks
    /\ pc[i] = "running"
    /\ outcome' = [outcome EXCEPT ![i] = o]
    /\ first' = [first EXCEPT ![i] = Kind(o)]
    /\ pc' = [pc EXCEPT ![i] = "done"]
    /\ UNCHANGED <<chunks, results, rate_limit_lock, last_request_time, wake,
                   collected, completed, index, job_id, progress_tracker, clock,
                   idle, second, calls, acqs, acqLog, lastStart, sleptAt>>

\* ---------------------------------------------------- process_chunks_parallel
\* mutant: a pool thread stays taken by the task it has finished
ActiveOrDone(i) == pc[i] \in {"rl_wait", "rl_hold", "call", "running", "done"}

\* the pool tasks that occupy a pool thread
Active(i) == pc[i] \in {"rl_wait", "rl_hold", "call", "running"}

\* mutant: the pool starts a task whatever the number of busy threads
TaskStartUnbounded(i) ==
    /\ i \in Tasks
    /\ pc[i] = "queued"
    /\ \A j \in Tasks : j < i => pc[j] # "queued"
    /\ pc' = [pc EXCEPT ![i] = "rl_wait"]
    /\ UNCHANGED <<chunks, results, rate_limit_lock, last_request_time, wake,
                   outcome, collected, completed, index, job_id, progress_tracker,
                   clock, idle, first, second, calls, acqs, acqLog,
                   lastStart, sleptAt>>

\* ThreadPoolExecutor: a free pool thread takes the oldest queued work item
TaskStart(i) ==
    /\ i \in Tasks
    /\ pc[i] = "queued"
    /\ \A j \in Tasks : j < i => pc[j] # "queued"
    /\ Cardinality({j \in Tasks : Active(j)}) < max_workers
    /\ pc' = [pc EXCEPT ![i] = "rl_wait"]
    /\ UNCHANGED <<chunks, results, rate_limit_lock, last_request_time, wake,
                   outcome, collected, completed, index, job_id, progress_tracker,
                   clock, idle, first, second, calls, acqs, acqLog,
                   lastStart, sleptAt>>

\* mutant: every result lands in the first slot
SlotFirst(i) == 1

\* the slot a result is stored in (lines 116, 123, 126, 129)
Slot(i) == i

\* mutant: the result is stored without the fallback to the chunk
ResultUnchecked(result, i) == result

\* result if result else chunks[index]
ResultOrChunk(result, i) == IF Truthy(result) THEN result ELSE chunks[i]

\* lines 109-112: as_completed yields a finished future
Collect(i) ==
    /\ pc[0] = "loop"
    /\ i \in Tasks \ collected
    /\ pc[i] = "done"
    /\ index' = i
    /\ collected' = collected \cup {i}
    /\ completed' = completed + 1
    /\ progress_tracker' = update_progress(progress_tracker, completed + 1, N,
                                           <<"Processing", completed + 1, N>>)
    /\ pc' = [pc EXCEPT ![0] = "handle"]
    /\ UNCHANGED <<chunks, results, rate_limit_lock, last_request_time, wake,
                   outcome, job_id, clock, idle, first, second, calls, acqs,
                   acqLog, lastStart, sleptAt>>

\* lines 114-116: future.result() returns
HandleResult ==
    /\ pc[0] = "handle"
    /\ outcome[index].kind = "ret"
    /\ results' = [results EXCEPT ![Slot(index)] = ResultOrChunk(outcome[index].v, index)]
    /\ outcome' = [outcome EXCEPT ![index] = NoOutcome]
    /\ index' = 0
    /\ pc' = [pc EXCEPT ![0] = "loop"]
    /\ UNCHANGED <<chunks, rate_limit_lock, last_request_time, wake, collected,
                   completed, job_id, progress_tracker, clock, idle, first, second,
                   calls, acqs, acqLog, lastStart, sleptAt>>

\* lines 117-120: future.result() raises a rate-limit error, time.sleep(5) begins
HandleRateLimit ==
    /\ pc[0] = "handle"
    /\ outcome[index].kind = "exc"
    /\ IsRateLimitError(outcome[index].v.s)
    /\ outcome' = [outcome EXCEPT ![index] = NoOutcome]
    /\ wake' = [wake EXCEPT ![0] = clock + RetryBackoff]
    /\ sleptAt' = clock
    /\ pc' = [pc EXCEPT ![0] = "backoff"]
    /\ UNCHANGED <<chunks, results, rate_limit_lock, last_request_time, collected,
                   completed, index, job_id, progress_tracker, clock, idle, first,
                   second, calls, acqs, acqLog, lastStart>>

\* mutant: the slot is left unset when the call raised another error
HandleOtherErrorUnstored ==
    /\ pc[0] = "handle"
    /\ outcome[index].kind = "exc"
    /\ ~IsRateLimitError(outcome[index].v.s)
    /\ outcome' = [outcome EXCEPT ![index] = NoOutcome]
    /\ index' = 0
    /\ pc' = [pc EXCEPT ![0] = "loop"]
    /\ UNCHANGED <<chunks, results, rate_limit_lock, last_request_time, wake,
                   collected, completed, job_id, progress_tracker, clock, idle,
                   first, second, calls, acqs, acqLog, lastStart, sleptAt>>

\* lines 127-129: future.result() raises any other error
HandleOtherError ==
    /\ pc[0] = "handle"
    /\ outcome[index].kind = "exc"
    /\ ~IsRateLimitError(outcome[index].v.s)
    /\ results' = [results EXCEPT ![Slot(index)] = chunks[index]]
    /\ outcome' = [outcome EXCEPT ![index] = NoOutcome]
    /\ index' = 0
    /\ pc' = [pc EXCEPT ![0] = "loop"]
    /\ UNCHANGED <<chunks, rate_limit_lock, last_request_time, wake, collected,
                   completed, job_id, progress_tracker, clock, idle, first, second,
                   calls, acqs, acqLog, lastStart, sleptAt>>

\* lines 120-122: time.sleep(5) returns, the retry enters process_with_rate_limit
BackoffDone ==
    /\ pc[0] = "backoff"
    /\ clock >= wake[0]
    /\ wake' = [wake EXCEPT ![0] = 0]
    /\ pc' = [pc EXCEPT ![0] = "rl_wait"]
    /\ UNCHANGED <<chunks, results, rate_limit_lock, last_request_time, outcome,
                   collected, completed, index, job_id, progress_tracker, clock,
                   idle, first, second, calls, acqs, acqLog, lastStart,
                   sleptAt>>

\* lines 122-126: the retry call ends with o, the slot is stored
RetryStore(o) ==
    /\ pc[0] = "running"
    /\ second' = [second EXCEPT ![index] = Kind(o)]
    /\ results' = [results EXCEPT ![Slot(index)] =
                       IF o.kind = "ret" THEN ResultOrChunk(o.v, index)
                                         ELSE chunks[index]]
    /\ index' = 0
    /\ sleptAt' = -1
    /\ pc' = [pc EXCEPT ![0] = "loop"]
    /\ UNCHANGED <<chunks, rate_limit_lock, last_request_time, wake, outcome,
                   collected, completed, job_id, progress_tracker, clock, idle,
                   first, calls, acqs, acqLog, lastStart>>

\* lines 122-126: the retry call of process_func returns or raises
RetryReturn(o) ==
    /\ pc[0] = "running"
    /\ o \in Outcomes(chunks[index])
    /\ RetryStore(o)

\* line 131: as_completed is exhausted, the pool is shut down, return results
Finish ==
    /\ pc[0] = "loop"
    /\ collected = Tasks
    /\ pc' = [pc EXCEPT ![0] = "returned"]
    /\ UNCHANGED <<chunks, results, rate_limit_lock, last_request_time, wake,
                   outcome, collected, completed, index, job_id, progress_tracker,
                   clock, idle, first, second, calls, acqs, acqLog,
                   lastStart, sleptAt>>

\* ----------------------------------------------------------------- the clock
Sleeping(p) ==
    /\ pc[p] \in {"rl_hold", "backoff"}
    /\ wake[p] > clock

\* time passes although no sleep asks for it
Tick ==
    /\ idle < MaxIdle
    /\ pc[0] # "returned"
    /\ idle' = idle + 1
    /\ clock' = clock + 1
    /\ UNCHANGED <<chunks, results, pc, rate_limit_lock, last_request_time, wake,
                   outcome, collected, completed, index, job_id, progress_tracker,
                   first, second, calls, acqs, acqLog, lastStart, sleptAt>>

\* time passes up to the end of the sleep that ends first
Elapse ==
    /\ \E p \in Callers : Sleeping(p)
    /\ \E p \in Callers :
          /\ Sleeping(p)
          /\ \A q \in Callers : Sleeping(q) => wake[p] <= wake[q]
          /\ clock' = wake[p]
    /\ UNCHANGED <<chunks, results, pc, rate_limit_lock, last_request_time, wake,
                   outcome, collected, completed, index, job_id, progress_tracker,
                   idle, first, second, calls, acqs, acqLog, lastStart,
                   sleptAt>>

\* ------------------------------------------------------------ chunk_text
\* A text is a sequence of characters.  DANDA stands for the sentence
\* boundary character U+0964 of line 61.
NL == "\n"
TAB == "\t"
SPACE == " "
DANDA == "|"
Alphabet == {"a", SPACE, NL, TAB, DANDA}
Whitespace == {SPACE, NL, TAB}

\* s starts with sep
StartsWith(s, sep) ==
    /\ Len(s) >= Len(sep)
    /\ \A k \in 1..Len(sep) : s[k] = sep[k]

\* s without its first n characters
Drop(s, n) == SubSeq(s, n + 1, Len(s))

\* str.split(sep): cut at the occurrences of sep found from left to right
RECURSIVE SplitFrom(_, _, _)
SplitFrom(rest, sep, piece) ==
    IF rest = <<>> THEN <<piece>>
    ELSE IF StartsWith(rest, sep)
         THEN <<piece>> \o SplitFrom(Drop(rest, Len(sep)), sep, <<>>)
         ELSE SplitFrom(Tail(rest), sep, Append(piece, Head(rest)))

Split(s, sep) == SplitFrom(s, sep, <<>>)

\* str.lstrip(), str.rstrip(), str.strip()
RECURSIVE LStrip(_)
LStrip(s) ==
    IF s # <<>> /\ Head(s) \in Whitespace THEN LStrip(Tail(s)) ELSE s

RECURSIVE RStrip(_)
RStrip(s) ==
    IF s # <<>> /\ s[Len(s)] \in Whitespace
    THEN RStrip(SubSeq(s, 1, Len(s) - 1))
    ELSE s

Strip(s) == RStrip(LStrip(s))

\* mutant: the chunk is appended as it is, not stripped
FlushUnstripped(st) ==
    IF st.current_chunk # <<>>
    THEN Append(st.chunks, st.current_chunk)
    ELSE st.chunks

\* if current_chunk: chunks.append(current_chunk.strip())
Flush(st) ==
    IF st.current_chunk # <<>>
    THEN Append(st.chunks, Strip(st.current_chunk))
    ELSE st.chunks

\* mutant: the test looks at the new piece alone
TooLongPieceOnly(current_chunk, piece, limit) == Len(piece) > limit

\* the test of lines 66 and 73
TooLong(current_chunk, piece, limit) == Len(current_chunk \o piece) > limit

\* lines 66-71 and 73-78: one piece joins the current chunk or starts the next
AddPiece(st, piece, sep, limit) ==
    IF TooLong(st.current_chunk, piece, limit)
    THEN [chunks |-> Flush(st), current_chunk |-> piece \o sep]
    ELSE [chunks |-> st.chunks, current_chunk |-> st.current_chunk \o piece \o sep]

\* lines 65-71: the loop over the sentences of an over-long paragraph
RECURSIVE AddSentences(_, _, _)
AddSentences(st, sentences, limit) ==
    IF sentences = <<>> THEN st
    ELSE AddSentences(AddPiece(st, Head(sentences), <<TAB>>, limit),
                      Tail(sentences), limit)

\* lines 61-63: split on the danda, on the tab when there is no danda
Sentences(paragraph) ==
    IF Len(Split(paragraph, <<DANDA>>)) = 1
    THEN Split(paragraph, <<TAB>>)
    ELSE Split(paragraph, <<DANDA>>)

\* lines 56-78: the body of the loop over the paragraphs
AddParagraph(st, paragraph, limit) ==
    IF Len(paragraph) > limit
    THEN AddSentences([chunks |-> Flush(st), current_chunk |-> <<>>],
                      Sentences(paragraph), limit)
    ELSE AddPiece(st, paragraph, <<NL, NL>>, limit)

RECURSIVE AddParagraphs(_, _, _)
AddParagraphs(st, paragraphs, limit) ==
    IF paragraphs = <<>> THEN st
    ELSE AddParagraphs(AddParagraph(st, Head(paragraphs), limit),
                       Tail(paragraphs), limit)

\* lines 49-83
chunk_text(t, limit) ==
    Flush(AddParagraphs([chunks |-> <<>>, current_chunk |-> <<>>],
                        Split(t, <<NL, NL>>), limit))

\* ------------------------------------ proofread_chunk and translate_chunk
\* the markers of a response of the proofreading model
CORRECTED_TEXT ==
    <<"C", "O", "R", "R", "E", "C", "T", "E", "D", "_", "T", "E",
      "X", "T", ":">>

CHANGES_MADE ==
    <<"C", "H", "A", "N", "G", "E", "S", "_", "M", "A", "D", "E",
      ":">>

FORMATTING_APPLIED ==
    <<"F", "O", "R", "M", "A", "T", "T", "I", "N", "G", "_", "A",
      "P", "P", "L", "I", "E", "D", ":">>

TECHNICAL_ERRORS_FOUND ==
    <<"T", "E", "C", "H", "N", "I", "C", "A", "L", " ", "E", "R",
      "R", "O", "R", "S", " ", "F", "O", "U", "N", "D", ":">>

NoCorrectionsNeeded ==
    <<"N", "o", " ", "t", "e", "c", "h", "n", "i", "c", "a", "l",
      " ", "c", "o", "r", "r", "e", "c", "t", "i", "o", "n", "s",
      " ", "n", "e", "e", "d", "e", "d">>

NoErrorsFound ==
    <<"N", "o", " ", "o", "b", "v", "i", "o", "u", "s", " ", "t",
      "e", "c", "h", "n", "i", "c", "a", "l", " ", "e", "r", "r",
      "o", "r", "s", " ", "f", "o", "u", "n", "d">>

prefixes_to_remove ==
    <<TECHNICAL_ERRORS_FOUND, CHANGES_MADE, FORMATTING_APPLIED, NoCorrectionsNeeded,
      NoErrorsFound>>

\* lines 212-214: the part before the first section marker it holds
RECURSIVE CutSections(_, _)
CutSections(corrected_part, sections) ==
    IF sections = <<>> THEN corrected_part
    ELSE CutSections(IF Contains(corrected_part, Head(sections))
                     THEN Split(corrected_part, Head(sections))[1]
                     ELSE corrected_part,
                     Tail(sections))

\* lines 226-228: each prefix in turn is cut off when the response starts with it
RECURSIVE RemovePrefixes(_, _)
RemovePrefixes(cleaned_response, prefixes) ==
    IF prefixes = <<>> THEN cleaned_response
    ELSE RemovePrefixes(IF StartsWith(cleaned_response, Head(prefixes))
                        THEN Strip(Drop(cleaned_response, Len(Head(prefixes))))
                        ELSE cleaned_response,
                        Tail(prefixes))

\* lines 204-236
extract_corrected_text(ai_response) ==
    LET parts == Split(ai_response, CORRECTED_TEXT)
        corrected_text == Strip(CutSections(parts[2], <<CHANGES_MADE, FORMATTING_APPLIED>>))
        cleaned_response == RemovePrefixes(Strip(ai_response), prefixes_to_remove)
    IN  IF Contains(ai_response, CORRECTED_TEXT) /\ Len(parts) > 1
            /\ corrected_text # <<>>
        THEN Str(corrected_text)
        ELSE IF Len(cleaned_response) > MinResponseLen
             THEN Str(cleaned_response)
             ELSE PyNone

\* what the proofreading model can answer for a unit: the corrected text
\* in the format asked for, the marker with nothing after it, or the remark
\* that nothing was to be corrected
ProofreadResponses(unit) ==
    { CORRECTED_TEXT \o <<NL>> \o Processed(unit).s \o <<NL>> \o CHANGES_MADE \o <<SPACE, "a">>,
      CORRECTED_TEXT \o <<NL>>,
      NoCorrectionsNeeded }

\* what the translation model can answer for a unit: the translation with
\* white space around it, or white space alone
TranslateResponses(unit) ==
    { <<SPACE>> \o Processed(unit).s \o <<NL>>, <<SPACE, NL>> }

\* what self.model.generate_content(prompt) followed by response.text can
\* do: give one of the responses, or raise
ApiOutcomes(responses) ==
    {[kind |-> "ret", v |-> Str(t)] : t \in responses}
       \cup {[kind |-> "exc", v |-> Str(msg)] : msg \in ErrMsgs}

\* lines 197-202: what proofread_chunk(text_chunk, language) does when the
\* model call did a
proofread_chunk(text_chunk, a) ==
    IF a.kind = "exc"
    THEN [kind |-> "ret", v |-> text_chunk]
    ELSE [kind |-> "ret", v |-> extract_corrected_text(a.v.s)]

\* lines 292-304: what translate_chunk(text_chunk, source_lang, target_lang)
\* does when the model call did a
translate_chunk(text_chunk, a) ==
    IF a.kind = "exc"
    THEN [kind |-> "ret", v |-> text_chunk]
    ELSE [kind |-> "ret", v |-> Str(Strip(a.v.s))]

\* what one call of process_func(unit) can do, with the kind of what the
\* model call inside it did
CallResults(unit) ==
    CASE process_func = "proofread_chunk" ->
             {[o |-> proofread_chunk(unit, a), api |-> Kind(a)] :
                 a \in ApiOutcomes(ProofreadResponses(unit))}
      [] process_func = "translate_chunk" ->
             {[o |-> translate_chunk(unit, a), api |-> Kind(a)] :
                 a \in ApiOutcomes(TranslateResponses(unit))}
      [] OTHER -> {[o |-> o, api |-> "none"] : o \in Outcomes(unit)}

\* line 94 in a pool task: process_func returns or raises, the future is set
CallReturn(i, c) ==
    /\ TaskReturn(i, c.o)
    /\ api' = [api EXCEPT ![i] = c.api]

\* lines 122-126: the retry call of process_func returns or raises
RetryCallReturn(i, c) ==
    /\ i = index
    /\ RetryStore(c.o)
    /\ UNCHANGED api

\* ------------------------------------------------------------- OCRProcessor
Pages == 1..images

\* the text on page i
PageText(i) == <<"p", Digits[i]>>

\* what extract_text_from_image can do for page i: return the text of the
\* page, the text with white space around it, no text, white space alone, or
\* raise
Extractions(i) ==
    {[kind |-> "ret", v |-> Str(t)] :
        t \in {PageText(i), <<SPACE>> \o PageText(i) \o <<NL>>, <<>>, <<SPACE, NL>>}}
       \cup {[kind |-> "exc", v |-> Str(<<"b", "o", "o", "m">>)]}

\* OCRProcessor.update_progress
ocr_update_progress(tracker, current, total, status) ==
    IF job_id # "None" /\ job_id # ""
    THEN [tracker EXCEPT ![job_id] = [current |-> current, total |-> total,
                                      status |-> status,
                                      percentage |-> Percentage(current, total)]]
    ELSE tracker

\* mutant: the text is returned whenever it is not empty
ocr_pageUnstripped(o) ==
    [kind |-> "ret",
     v |-> IF o.kind = "ret" /\ o.v.s # <<>> THEN o.v ELSE Str(<<>>)]

\* lines 385-391: what ocr_page returns when the extraction did o:
\* text if text.strip() else "", and "" when the extraction raised
ocr_page(o) ==
    [kind |-> "ret",
     v |-> IF o.kind = "ret" /\ Strip(o.v.s) # <<>> THEN o.v ELSE Str(<<>>)]

\* sep.join(ss)
RECURSIVE Join(_, _)
Join(sep, ss) ==
    IF ss = <<>> THEN <<>>
    ELSE IF Len(ss) = 1 THEN ss[1]
    ELSE ss[1] \o sep \o Join(sep, Tail(ss))

\* line 399: '\n\n'.join([t for t in extracted_texts if t])
JoinPages(texts) ==
    Str(Join(<<NL, NL>>, [k \in DOMAIN SelectSeq(texts, Truthy) |->
                              SelectSeq(texts, Truthy)[k].s]))

\* lines 336-341: one pass of the loop of pdf_to_images
ConvertPage ==
    /\ opc = "convert"
    /\ page_num < images
    /\ progress_tracker' =
           ocr_update_progress(progress_tracker, page_num + 1, images,
                               <<"Converting page", page_num + 1, images>>)
    /\ page_num' = page_num + 1
    /\ UNCHANGED <<images, opc, ppc, page_result, extracted, extracted_texts, ocr_out>>

\* lines 343-344, 378-380, 393-394: pdf_to_images returns, the pages are
\* submitted to the pool
Submit ==
    /\ opc = "convert"
    /\ page_num = images
    /\ opc' = "pool"
    /\ extracted_texts' = [i \in Pages |-> PyNone]
    /\ ppc' = [i \in Pages |-> "queued"]
    /\ UNCHANGED <<images, page_num, page_result, extracted, ocr_out, progress_tracker>>

\* ThreadPoolExecutor(max_workers=5): a free pool thread takes the oldest
\* queued page
PageStart(i) ==
    /\ opc = "pool"
    /\ i \in Pages
    /\ ppc[i] = "queued"
    /\ \A j \in Pages : j < i => ppc[j] # "queued"
    /\ Cardinality({j \in Pages : ppc[j] \in {"started", "reported"}}) < OcrWorkers
    /\ ppc' = [ppc EXCEPT ![i] = "started"]
    /\ UNCHANGED <<images, opc, page_num, page_result, extracted, extracted_texts,
                   ocr_out, progress_tracker>>

\* line 386: ocr_page reports its page
PageReport(i) ==
    /\ i \in Pages
    /\ ppc[i] = "started"
    /\ progress_tracker' =
           ocr_update_progress(progress_tracker, i, images,
                               <<"Extracting text from page", i, images>>)
    /\ ppc' = [ppc EXCEPT ![i] = "reported"]
    /\ UNCHANGED <<images, opc, page_num, page_result, extracted, extracted_texts,
                   ocr_out>>

\* lines 387-391: the extraction returns or raises, ocr_page returns
PageExtract(i, o) ==
    /\ i \in Pages
    /\ ppc[i] = "reported"
    /\ extracted' = [extracted EXCEPT ![i] = o]
    /\ page_result' = [page_result EXCEPT ![i] = ocr_page(o)]
    /\ ppc' = [ppc EXCEPT ![i] = "done"]
    /\ UNCHANGED <<images, opc, page_num, extracted_texts, ocr_out, progress_tracker>>

\* lines 395-397: as_completed yields a finished page; future.result() raises
\* what ocr_page raised
PageCollect(i) ==
    /\ opc = "pool"
    /\ i \in Pages
    /\ ppc[i] = "done"
    /\ ppc' = [ppc EXCEPT ![i] = "collected"]
    /\ IF page_result[i].kind = "exc"
       THEN opc' = "failed" /\ UNCHANGED extracted_texts
       ELSE /\ extracted_texts' = [extracted_texts EXCEPT ![i] = page_result[i].v]
            /\ UNCHANGED opc
    /\ UNCHANGED <<images, page_num, page_result, extracted, ocr_out, progress_tracker>>

\* line 399
OcrReturn ==
    /\ opc = "pool"
    /\ \A i \in Pages : ppc[i] = "collected"
    /\ ocr_out' = JoinPages(extracted_texts)
    /\ opc' = "returned"
    /\ UNCHANGED <<images, page_num, ppc, page_result, extracted, extracted_texts,
                   progress_tracker>>

\* ------------------------------------------------------------- specification
ChunkIdle ==
    /\ text = <<>>
    /\ max_chunk_size = 1
    /\ cpc = "idle"
    /\ chunk_out = <<>>

OcrIdle ==
    /\ images = 0
    /\ opc = "idle"
    /\ page_num = 0
    /\ ppc = <<>>
    /\ page_result = <<>>
    /\ extracted = <<>>
    /\ extracted_texts = <<>>
    /\ ocr_out = PyNone

ProgIdle ==
    /\ upc = "idle"
    /\ arg_current = 0
    /\ arg_total = 0
    /\ before = [k \in {"job", "other"} |-> NoSnapshot]

\* a run of process_chunks_parallel(chunks, process_func, "Processing") on a
\* new DocumentProcessor(max_workers, job_id)
InitDispatch ==
    /\ chunks \in {[i \in 1..n |-> Unit(i)] : n \in 0..MaxChunks}
    /\ results = [i \in 1..Len(chunks) |-> PyNone]
    /\ pc = [p \in 0..Len(chunks) |-> IF p = 0 THEN "loop" ELSE "queued"]
    /\ rate_limit_lock = Free
    /\ last_request_time = 0
    /\ wake = [p \in 0..Len(chunks) |-> 0]
    /\ outcome = [i \in 1..Len(chunks) |-> NoOutcome]
    /\ collected = {}
    /\ completed = 0
    /\ index = 0
    /\ job_id = "job"
    /\ progress_tracker = [k \in {"job", "other"} |-> NoSnapshot]
    /\ clock = StartTime
    /\ idle = 0
    /\ first = [i \in 1..Len(chunks) |-> "none"]
    /\ second = [i \in 1..Len(chunks) |-> "none"]
    /\ calls = [i \in 1..Len(chunks) |-> 0]
    /\ acqs = [i \in 1..Len(chunks) |-> 0]
    /\ acqLog = <<>>
    /\ lastStart = -1
    /\ sleptAt = -1
    /\ max_workers \in 1..MaxWorkers
    /\ api = [i \in 1..Len(chunks) |-> "none"]
    /\ ChunkIdle
    /\ OcrIdle
    /\ ProgIdle

\* process_func is any function: it returns or raises as it likes
Init ==
    /\ InitDispatch
    /\ process_func = "process_func"

\* the steps of the dispatcher but for the return of process_func
Dispatch ==
    \/ \E i \in Tasks : TaskStart(i)
    \/ \E p \in Callers : RLEnter(p)
    \/ \E p \in Callers : RLRecord(p)
    \/ \E p \in Callers : Invoke(p)
    \/ \E i \in Tasks : Collect(i)
    \/ HandleResult
    \/ HandleRateLimit
    \/ HandleOtherError
    \/ BackoffDone
    \/ Finish
    \/ Tick
    \/ Elapse

Next ==
    \/ Dispatch
    \/ \E i \in Tasks : \E o \in Outcomes(chunks[i]) : TaskReturn(i, o)
    \/ \E o \in UNION {Outcomes(chunks[i]) : i \in Tasks} : RetryReturn(o)

Spec == Init /\ [][Next /\ UNCHANGED <<chunkVars, cfgVars, ocrVars, progVars>>]_vars

\* ------------------------- specification with the processors as process_func
\* process_func is any function, proofread_chunk or translate_chunk
InitAI ==
    /\ InitDispatch
    /\ process_func \in {"process_func", "proofread_chunk", "translate_chunk"}

NextAI ==
    \/ Dispatch /\ UNCHANGED api
    \/ \E i \in Tasks : \E c \in CallResults(chunks[i]) : CallReturn(i, c)
    \/ \E i \in Tasks : \E c \in CallResults(chunks[i]) : RetryCallReturn(i, c)

SpecAI ==
    InitAI /\ [][NextAI /\ UNCHANGED <<max_workers, process_func, chunkVars, ocrVars,
                                       progVars>>]_vars

\* ------------------------------------ specification under fair scheduling
Frame == UNCHANGED <<chunkVars, cfgVars, ocrVars, progVars>>

\* the steps of the pool task of chunks[i]
WorkerStep(i) ==
    /\ i \in Tasks
    /\ \/ TaskStart(i)
       \/ RLEnter(i)
       \/ RLRecord(i)
       \/ Invoke(i)
       \/ \E o \in Outcomes(chunks[i]) : TaskReturn(i, o)

\* the steps of the thread that called process_chunks_parallel
CollectorStep ==
    \/ \E i \in Tasks : Collect(i)
    \/ HandleResult
    \/ HandleRateLimit
    \/ HandleOtherError
    \/ BackoffDone
    \/ RLEnter(0)
    \/ RLRecord(0)
    \/ Invoke(0)
    \/ \E o \in UNION {Outcomes(chunks[i]) : i \in Tasks} : RetryReturn(o)
    \/ Finish

\* every thread that can take a step takes one in the end, every call of
\* process_func returns or raises in the end, and a sleep ends when its time
\* is over
Fairness ==
    /\ \A i \in 1..MaxChunks : WF_vars(WorkerStep(i) /\ Frame)
    /\ WF_vars(CollectorStep /\ Frame)
    /\ WF_vars(Elapse /\ Frame)

SpecLive == Spec /\ Fairness

\* ------------------------------------------- specification of chunk_text
RECURSIVE SeqsUpTo(_)
SeqsUpTo(n) ==
    IF n = 0 THEN {<<>>}
    ELSE SeqsUpTo(n - 1) \cup
         {Append(t, c) : t \in {u \in SeqsUpTo(n - 1) : Len(u) = n - 1}, c \in Alphabet}

DispatchIdle ==
    /\ chunks = <<>>
    /\ results = <<>>
    /\ pc = [p \in {0} |-> "returned"]
    /\ rate_limit_lock = Free
    /\ last_request_time = 0
    /\ wake = [p \in {0} |-> 0]
    /\ outcome = <<>>
    /\ collected = {}
    /\ completed = 0
    /\ index = 0
    /\ clock = StartTime
    /\ idle = 0
    /\ first = <<>>
    /\ second = <<>>
    /\ calls = <<>>
    /\ acqs = <<>>
    /\ acqLog = <<>>
    /\ lastStart = -1
    /\ sleptAt = -1
    /\ max_workers = 1
    /\ process_func = "process_func"
    /\ api = <<>>

ParIdle ==
    /\ DispatchIdle
    /\ job_id = "None"
    /\ progress_tracker = [k \in {"job", "other"} |-> NoSnapshot]

InitChunk ==
    /\ text \in SeqsUpTo(MaxLen)
    /\ max_chunk_size \in 1..MaxSize
    /\ cpc = "start"
    /\ chunk_out = <<>>
    /\ ParIdle
    /\ OcrIdle
    /\ ProgIdle

\* a caller runs chunk_text(text, max_chunk_size)
ChunkText ==
    /\ cpc = "start"
    /\ chunk_out' = chunk_text(text, max_chunk_size)
    /\ cpc' = "done"
    /\ UNCHANGED <<text, max_chunk_size>>

NextChunk == ChunkText

SpecChunk == InitChunk /\ [][NextChunk /\ UNCHANGED <<parVars, cfgVars, ocrVars, progVars>>]_vars

\* ------------------------------------------- specification of perform_ocr
dispatchVars == <<chunks, results, pc, rate_limit_lock, last_request_time, wake,
                  outcome, collected, completed, index, job_id, clock, idle, first,
                  second, calls, acqs, acqLog, lastStart, sleptAt>>

JobIds == {"None", "", "job"}

\* perform_ocr(pdf_path) on a new OCRProcessor(vision_api_key, job_id) for a
\* document of images pages
InitOCR ==
    /\ images \in 0..MaxPages
    /\ opc = "convert"
    /\ page_num = 0
    /\ ppc = [i \in 1..images |-> "none"]
    /\ page_result = [i \in 1..images |-> NoOutcome]
    /\ extracted = [i \in 1..images |-> NoOutcome]
    /\ extracted_texts = <<>>
    /\ ocr_out = PyNone
    /\ DispatchIdle
    /\ job_id \in JobIds
    /\ progress_tracker = [k \in {"job", "other"} |-> NoSnapshot]
    /\ ChunkIdle
    /\ ProgIdle

NextOCR ==
    \/ ConvertPage
    \/ Submit
    \/ \E i \in Pages : PageStart(i)
    \/ \E i \in Pages : PageReport(i)
    \/ \E i \in Pages : \E o \in Extractions(i) : PageExtract(i, o)
    \/ \E i \in Pages : PageCollect(i)
    \/ OcrReturn

SpecOCR ==
    InitOCR /\ [][NextOCR /\ UNCHANGED <<dispatchVars, chunkVars, cfgVars, progVars>>]_vars

\* --------------------------------------- specification of update_progress
\* the snapshot update_progress(current, total, "Processing: ...") leaves
Snapshot(current, total, percentage) ==
    [current |-> current, total |-> total,
     status |-> <<"Processing", current, total>>, percentage |-> percentage]

\* progress_tracker before the call: empty, or holding snapshots of this job
\* and of another
Trackers ==
    { [k \in {"job", "other"} |-> NoSnapshot],
      [k \in {"job", "other"} |->
          IF k = "job" THEN Snapshot(1, 2, 50) ELSE Snapshot(3, 3, 100)] }

\* one call update_progress(arg_current, arg_total, status) on a processor
\* constructed with job_id
InitProgress ==
    /\ upc = "start"
    /\ arg_current \in 0..MaxCount
    /\ arg_total \in 0..MaxCount
    /\ job_id \in JobIds
    /\ progress_tracker \in Trackers
    /\ before = progress_tracker
    /\ DispatchIdle
    /\ ChunkIdle
    /\ OcrIdle

\* DocumentProcessor.update_progress
UpdateProgress ==
    /\ upc = "start"
    /\ progress_tracker' =
           update_progress(progress_tracker, arg_current, arg_total,
                           <<"Processing", arg_current, arg_total>>)
    /\ upc' = "done"
    /\ UNCHANGED <<arg_current, arg_total, before>>

\* OCRProcessor.update_progress
OcrUpdateProgress ==
    /\ upc = "start"
    /\ progress_tracker' =
           ocr_update_progress(progress_tracker, arg_current, arg_total,
                               <<"Processing", arg_current, arg_total>>)
    /\ upc' = "done"
    /\ UNCHANGED <<arg_current, arg_total, before>>

NextProgress ==
    \/ UpdateProgress
    \/ OcrUpdateProgress

SpecProgress ==
    InitProgress
       /\ [][NextProgress /\ UNCHANGED <<dispatchVars, chunkVars, cfgVars, ocrVars>>]_vars

\* ------------------------------- specification of the writers of snapshots
\* a run of process_chunks_parallel or a run of perform_ocr
InitWriters == Init \/ InitOCR

NextWriters ==
    \/ Next /\ UNCHANGED <<chunkVars, cfgVars, ocrVars, progVars>>
    \/ NextOCR /\ UNCHANGED <<dispatchVars, chunkVars, cfgVars, progVars>>

SpecWriters == InitWriters /\ [][NextWriters]_vars

\* ======================================================================
\* Properties of process_chunks_parallel and process_with_rate_limit (Spec)
\* ======================================================================

\* the future of chunks[i] has been handled to the end, retry included
Handled(i) == i \in collected /\ index # i

\* C1: process_chunks_parallel returns a list as long as the input in which
\* every slot i holds either the non-empty value process_func returned for
\* chunks[i] or chunks[i] itself, whatever the calls did and in whatever
\* order the futures completed; until then a slot is unset or holds one of
\* these two values.
C1_FullOrderedResult ==
    /\ Len(results) = Len(chunks)
    /\ \A i \in Tasks :
          /\ results[i] \in {PyNone, chunks[i], Processed(chunks[i])}
          /\ results[i] = Processed(chunks[i]) =>
                 Truthy(results[i]) /\ "value" \in {first[i], second[i]}
          /\ (Handled(i) \/ pc[0] = "returned") => results[i] # PyNone

C1_Witness ==
    /\ pc[0] = "returned"
    /\ Len(chunks) >= 2
    /\ first[1] = "error"
    /\ results[1] = chunks[1]
    /\ results[2] = Processed(chunks[2])

\* C2: a unit whose first call raises an error carrying a rate-limit
\* signature is retried once: process_func is called twice for it in all,
\* the second call comes after the back-off of RetryBackoff and after one
\* more passage through the limiter, and when the second call raises too the
\* slot holds the original unit.
C2_RetryOnce ==
    /\ \A i \in Tasks :
          /\ calls[i] <= 2
          /\ calls[i] <= acqs[i]
          /\ first[i] = "ratelimit" /\ Handled(i) =>
                 /\ calls[i] = 2
                 /\ acqs[i] = 2
                 /\ second[i] \in {"ratelimit", "error"} => results[i] = chunks[i]
    /\ pc[0] \in {"rl_wait", "rl_hold", "call", "running"} =>
          /\ first[index] = "ratelimit"
          /\ sleptAt >= 0
          /\ clock >= sleptAt + RetryBackoff

C2_Witness ==
    \E i \in Tasks :
        /\ first[i] = "ratelimit"
        /\ second[i] = "ratelimit"
        /\ Handled(i)
        /\ calls[i] = 2
        /\ results[i] = chunks[i]

\* C3: a unit whose call raises an error without a rate-limit signature is
\* called once and never retried, its slot holds the original unit, the run
\* goes on to return, and the slots of the other units hold what their own
\* calls gave.
C3_OtherErrorNoRetry ==
    \A i \in Tasks :
        first[i] = "error" =>
            /\ calls[i] = 1
            /\ acqs[i] = 1
            /\ second[i] = "none"
            /\ results[i] \in {PyNone, chunks[i]}
            /\ Handled(i) => results[i] = chunks[i]
            /\ \A j \in Tasks \ {i} :
                   first[j] = "value" /\ Handled(j) => results[j] = Processed(chunks[j])

C3_Witness ==
    /\ pc[0] = "returned"
    /\ Len(chunks) >= 2
    /\ first[2] = "error"
    /\ results[2] = chunks[2]
    /\ first[1] = "value"
    /\ results[1] = Processed(chunks[1])

\* C4: when process_func returns an empty value (empty string or None)
\* without raising, on the first call or on the retry, the slot holds the
\* original unit and no further call is made for that unit.
C4_EmptyFallsBack ==
    \A i \in Tasks :
        /\ first[i] = "empty" =>
               /\ calls[i] = 1
               /\ second[i] = "none"
               /\ Handled(i) => results[i] = chunks[i]
        /\ second[i] = "empty" =>
               /\ calls[i] = 2
               /\ results[i] = chunks[i]

C4_Witness ==
    /\ pc[0] = "returned"
    /\ \E i \in Tasks : first[i] = "empty" /\ results[i] = chunks[i]
    /\ \E i \in Tasks : second[i] = "empty" /\ results[i] = chunks[i]

\* C5 as stated: no two starts of the wrapped function are less than
\* min_request_interval apart, each start timed when the function begins.
C5_StartsSpaced ==
    [][(calls' # calls /\ lastStart >= 0) =>
           lastStart' - lastStart >= min_request_interval]_vars

\* C5 as amended: what is spaced by min_request_interval is the times the
\* callers write to last_request_time under the lock; a wrapped function
\* starts only after its caller's own write, at no bounded distance from it.
C5_AcquisitionsSpaced ==
    /\ [][last_request_time' # last_request_time =>
              last_request_time' - last_request_time >= min_request_interval]_vars
    /\ [](\A i \in Tasks : calls[i] <= acqs[i])

C5_Witness ==
    /\ Cardinality({p \in Callers : pc[p] = "running"}) >= 2
    /\ Len(acqLog) >= 2
    /\ acqLog[2] - acqLog[1] >= min_request_interval
    /\ lastStart = clock

\* C6: the times written to last_request_time by successive acquisitions are
\* pairwise at least min_request_interval apart: the k-th and the j-th are
\* at least (k-j)*min_request_interval apart, the first and the last of n at
\* least (n-1)*min_request_interval.
C6_PairwiseSpacing ==
    \A j, k \in DOMAIN acqLog :
        j < k => acqLog[k] - acqLog[j] >= (k - j) * min_request_interval

C6_Witness ==
    /\ Len(acqLog) >= 3
    /\ acqLog[2] = acqLog[1] + min_request_interval
    /\ acqLog[3] >= acqLog[1] + 2 * min_request_interval

\* the callers whose call of process_func is in progress
Running == {p \in Callers : pc[p] = "running"}

\* the callers inside process_with_rate_limit
Busy == {p \in Callers : pc[p] \in {"rl_wait", "rl_hold", "call", "running"}}

\* C15 as stated: at every moment of a run the number of calls of
\* process_func in progress, first attempts and retries together, is at most
\* max_workers.
C15_AtMostMaxWorkers == Cardinality(Running) <= max_workers

\* C15 as amended: at most max_workers first attempts are in progress, all
\* of them in pool threads; a retry runs in the collecting thread, one at a
\* time and next to the pool, so that up to max_workers + 1 calls are in
\* progress together.
C15_PoolPlusOneRetry ==
    /\ Cardinality(Busy \ {0}) <= max_workers
    /\ Cardinality(Busy) <= max_workers + 1
    /\ \A i \in Busy \ {0} : calls[i] <= 1 /\ second[i] = "none"
    /\ 0 \in Busy => first[index] = "ratelimit"

C15_Witness ==
    /\ 0 \in Running
    /\ Cardinality(Running) = max_workers + 1

\* C17: the rate-limit lock is held only while the pacing decision is made
\* and is released before the wrapped function is called: whoever is about
\* to call the wrapped function or is inside it does not hold the lock, so a
\* caller waiting for the limiter can take the lock while wrapped calls are
\* in progress, and several wrapped calls are in progress together.
C17_LockOnlyWhilePacing ==
    /\ \A p \in Callers : rate_limit_lock = p <=> pc[p] = "rl_hold"
    /\ \A p \in Callers : pc[p] \in {"call", "running"} => rate_limit_lock # p
    /\ \A p \in Callers :
           (pc[p] = "rl_wait" /\ \A q \in Callers : pc[q] # "rl_hold") =>
               ENABLED (RLEnter(p) /\ UNCHANGED <<chunkVars, cfgVars, ocrVars, progVars>>)

C17_Witness ==
    \E p, q \in Callers :
        /\ p # q
        /\ pc[p] = "running"
        /\ rate_limit_lock = q
        /\ calls[ArgIndex(q)] = 0

\* the number the next snapshot of the job has to show
NextCurrent ==
    IF progress_tracker[job_id] = NoSnapshot THEN 1
    ELSE progress_tracker[job_id].current + 1

\* C18: a run over n >= 1 units with job_id set writes n snapshots for the
\* job, one when each future is collected: the k-th written has current = k,
\* total = n and the status "Processing: k/n" whatever the completion order,
\* no other key is written, and on return the snapshot has current = total.
C18_SnapshotPerCompletion ==
    /\ [][/\ completed' # completed => progress_tracker' # progress_tracker
          /\ progress_tracker' # progress_tracker =>
               /\ completed' = completed + 1
               /\ progress_tracker'[job_id].current = NextCurrent
               /\ progress_tracker'[job_id].current = completed'
               /\ progress_tracker'[job_id].total = N
               /\ progress_tracker'[job_id].status = <<"Processing", NextCurrent, N>>
               /\ progress_tracker'["other"] = progress_tracker["other"]]_vars
    /\ []((pc[0] = "returned" /\ N >= 1) =>
              /\ completed = N
              /\ progress_tracker[job_id].current = N
              /\ progress_tracker[job_id].total = N)

C18_Witness ==
    /\ pc[0] = "returned"
    /\ N = 2
    /\ first[2] = "ratelimit"
    /\ progress_tracker["job"].current = 2
    /\ progress_tracker["job"].status = <<"Processing", 2, 2>>

\* the slots that hold their final value: a slot is written once
Written == {i \in Tasks : results[i] # PyNone}

\* C20 as stated: whenever the snapshot of the job shows current = k, at
\* least k slots of results hold their final value, and when it shows
\* current = total no call, back-off or retry is pending.
C20_SlotsBeforeSnapshot ==
    progress_tracker[job_id] # NoSnapshot =>
        /\ Cardinality(Written) >= progress_tracker[job_id].current
        /\ progress_tracker[job_id].current = progress_tracker[job_id].total =>
               /\ pc[0] \in {"loop", "returned"}
               /\ \A i \in Tasks : pc[i] = "done"

\* C20 as amended: the snapshot is written when a future is collected,
\* before its result is stored: when it shows current = k, k futures have
\* been collected and at least k - 1 slots hold their final value, all k
\* once the collected future is handled; when it shows current = total every
\* first call has finished, but the handling of the last collected future,
\* its back-off and retry included, may still be pending.
C20_SnapshotCountsCollected ==
    progress_tracker[job_id] # NoSnapshot =>
        /\ progress_tracker[job_id].current = Cardinality(collected)
        /\ Cardinality(Written) >= progress_tracker[job_id].current - 1
        /\ pc[0] \in {"loop", "returned"} =>
               Cardinality(Written) = progress_tracker[job_id].current
        /\ progress_tracker[job_id].current = progress_tracker[job_id].total =>
               \A i \in Tasks : pc[i] = "done"

C20_Witness ==
    /\ progress_tracker[job_id] # NoSnapshot
    /\ progress_tracker[job_id].current = progress_tracker[job_id].total
    /\ pc[0] = "backoff"
    /\ results[index] = PyNone

\* ======================================================================
\* Properties of the processors under process_chunks_parallel (SpecAI)
\* ======================================================================

\* C16: when the model call inside proofread_chunk or translate_chunk fails
\* with a rate-limit error (a message holding "429", "quota" or "rate") and
\* the method is the process_func of process_chunks_parallel, the method is
\* called a second time for that chunk, after the back-off.
C16_RateLimitRetried ==
    \A i \in Tasks :
        (/\ process_func \in {"proofread_chunk", "translate_chunk"}
         /\ api[i] = "ratelimit"
         /\ Handled(i)) =>
            /\ calls[i] = 2
            /\ second[i] # "none"

\* ======================================================================
\* Termination of process_chunks_parallel (SpecLive)
\* ======================================================================

\* C19: when every call of process_func returns or raises in the end and
\* the threads are scheduled fairly, every run returns: no caller waits for
\* the rate-limit lock for ever, every unit is passed to process_func at
\* least once, and the collecting loop has handled every unit when it ends,
\* the units that took the retry path included.
C19_RunReturns ==
    /\ <>(pc[0] = "returned")
    /\ \A p \in 0..MaxChunks :
           (p \in Callers /\ pc[p] = "rl_wait") ~> (p \in Callers /\ pc[p] # "rl_wait")
    /\ [](pc[0] = "returned" =>
              /\ collected = Tasks
              /\ \A i \in Tasks : calls[i] >= 1 /\ results[i] # PyNone)

C19_Witness ==
    /\ pc[0] = "returned"
    /\ N >= 2
    /\ \E i \in Tasks : second[i] # "none" /\ calls[i] = 2

\* ======================================================================
\* Properties of chunk_text (SpecChunk)
\* ======================================================================

RECURSIVE Concat(_)
Concat(ss) == IF ss = <<>> THEN <<>> ELSE Head(ss) \o Concat(Tail(ss))

IsNotWhitespace(c) == c \notin Whitespace
NonWhitespace(s) == SelectSeq(s, IsNotWhitespace)

Range(f) == {f[k] : k \in DOMAIN f}

\* the pieces an over-long paragraph of t is cut into
Segments(t, limit) ==
    UNION {Range(Sentences(paragraph)) :
              paragraph \in {q \in Range(Split(t, <<NL, NL>>)) : Len(q) > limit}}

\* C7: chunk_text of the empty string returns the empty list, for every
\* max_chunk_size.
C7_EmptyTextNoChunks ==
    (cpc = "done" /\ text = <<>>) => chunk_out = <<>>

\* C8: the chunks of chunk_text(T, S), concatenated in order, hold every
\* non-whitespace character of T once and in order, the danda of over-long
\* paragraphs included.
C8_NoCharacterLost ==
    cpc = "done" => NonWhitespace(Concat(chunk_out)) = NonWhitespace(text)

\* C9: every chunk of chunk_text(T, S) is at most S long, unless it is one
\* single piece of an over-long paragraph (cut on the danda, or on the tab
\* when there is no danda) that is itself longer than S.
C9_ChunkSizeBound ==
    cpc = "done" =>
        \A k \in DOMAIN chunk_out :
            \/ Len(chunk_out[k]) <= max_chunk_size
            \/ \E seg \in Segments(text, max_chunk_size) :
                   /\ Len(seg) > max_chunk_size
                   /\ chunk_out[k] = Strip(seg)

C9_Witness ==
    /\ cpc = "done"
    /\ Contains(text, <<DANDA>>)
    /\ Contains(text, <<NL, NL>>)
    /\ \E k \in DOMAIN chunk_out : Len(chunk_out[k]) > max_chunk_size
    /\ \E k \in DOMAIN chunk_out : Len(chunk_out[k]) = max_chunk_size

\* C10: a text T without a blank-line boundary and with len(T) <= S gives
\* exactly one chunk, T.strip().
C10_ShortTextOneChunk ==
    (cpc = "done" /\ ~Contains(text, <<NL, NL>>) /\ Len(text) <= max_chunk_size) =>
        chunk_out = <<Strip(text)>>

C10_Witness ==
    /\ cpc = "done"
    /\ ~Contains(text, <<NL, NL>>)
    /\ Len(text) = max_chunk_size
    /\ Head(text) \in Whitespace
    /\ Contains(text, <<DANDA>>)
    /\ chunk_out = <<Strip(text)>>
    /\ Strip(text) # text

\* ======================================================================
\* Properties of perform_ocr (SpecOCR)
\* ======================================================================

\* s holds a character that is not white space
HasText(s) == \E k \in DOMAIN s : s[k] \notin Whitespace

\* the extraction of page i gave a text that counts
Contributes(i) == extracted[i].kind = "ret" /\ HasText(extracted[i].v.s)

\* the texts of the contributing pages from page i on, in page order, with a
\* blank line between two of them
RECURSIVE RemainingText(_)
RemainingText(i) ==
    IF i > images THEN <<>>
    ELSE IF ~Contributes(i) THEN RemainingText(i + 1)
    ELSE IF \E j \in (i + 1)..images : Contributes(j)
         THEN extracted[i].v.s \o <<NL, NL>> \o RemainingText(i + 1)
         ELSE extracted[i].v.s

\* C11: perform_ocr never fails because the extraction of a page failed: a
\* page whose extraction raises or gives an empty or whitespace-only text
\* contributes nothing, and the returned text is the texts of the other
\* pages, as extracted, joined by "\n\n" in page order, whatever the order
\* in which the page workers finished.
C11_FailedPagesOmitted ==
    /\ opc # "failed"
    /\ opc = "returned" => ocr_out = Str(RemainingText(1))

C11_Witness ==
    /\ opc = "returned"
    /\ images = 3
    /\ extracted[1] = [kind |-> "ret", v |-> Str(PageText(1))]
    /\ extracted[2].kind = "exc"
    /\ extracted[3] = [kind |-> "ret", v |-> Str(PageText(3))]
    /\ ocr_out = Str(PageText(1) \o <<NL, NL>> \o PageText(3))

\* C21: when perform_ocr returns for a document of n >= 1 pages with a job_id
\* that is set, the snapshot stored for the job has current == n, total == n
\* and percentage 100, whatever the order in which the page workers started
\* and finished.
C21_FinalSnapshotComplete ==
    (opc = "returned" /\ images >= 1 /\ job_id = "job") =>
        /\ progress_tracker["job"] # NoSnapshot
        /\ progress_tracker["job"].current = images
        /\ progress_tracker["job"].total = images
        /\ progress_tracker["job"].percentage = 100

\* ======================================================================
\* Properties of the progress snapshots (SpecWriters, SpecProgress)
\* ======================================================================

\* the snapshots progress_tracker holds
Stored == {progress_tracker[k] : k \in DOMAIN progress_tracker} \ {NoSnapshot}

\* C12: every snapshot that process_chunks_parallel, pdf_to_images or
\* perform_ocr writes to progress_tracker has a percentage within 0..100,
\* and a percentage of 0 when its total is 0.
C12_PercentageInRange ==
    \A snap \in Stored :
        /\ snap.percentage \in 0..100
        /\ snap.total = 0 => snap.percentage = 0

C12_Witness ==
    /\ opc = "pool"
    /\ progress_tracker["job"].status = <<"Extracting text from page", 2, 3>>
    /\ progress_tracker["job"].percentage \in 1..99

\* floor(100 * current / total)
Floor(current, total) == (100 * current) \div total

\* 100 * current / total rounded to the nearest integer
Round(current, total) == (200 * current + total) \div (2 * total)

\* C13 as stated: every stored snapshot has percentage ==
\* round(100*current/total) when total > 0, and 0 otherwise.
C13_Rounded ==
    \A snap \in Stored :
        snap.percentage = IF snap.total > 0 THEN Round(snap.current, snap.total) ELSE 0

\* C13 as amended: the percentage of every stored snapshot is cut off, not
\* rounded: when total > 0 it is floor(100*current/total), or one less than
\* that for some pairs where total divides 100*current; otherwise it is 0.
C13_Truncated ==
    \A snap \in Stored :
        IF snap.total > 0
        THEN \/ snap.percentage = Floor(snap.current, snap.total)
             \/ /\ snap.percentage = Floor(snap.current, snap.total) - 1
                /\ (100 * snap.current) % snap.total = 0
        ELSE snap.percentage = 0

C13_Witness ==
    /\ upc = "done"
    /\ job_id = "job"
    /\ progress_tracker["job"].current = 2
    /\ progress_tracker["job"].total = 3
    /\ progress_tracker["job"].percentage = 66
    /\ Round(2, 3) = 67

\* C14: update_progress(current, total, status) with a job_id that is set
\* replaces the snapshot under that job_id by {current, total, status,
\* percentage = floor(100*current/total) if total > 0 else 0} and leaves the
\* other keys as they were; with job_id None or empty it leaves
\* progress_tracker as it was.
C14_WholeReplacement ==
    upc = "done" =>
        IF job_id \in {"None", ""}
        THEN progress_tracker = before
        ELSE /\ progress_tracker[job_id] =
                    Snapshot(arg_current, arg_total,
                             IF arg_total > 0 THEN Floor(arg_current, arg_total) ELSE 0)
             /\ \A k \in DOMAIN progress_tracker \ {job_id} :
                    progress_tracker[k] = before[k]

====
